---- MODULE Spec2Model ----
(***************************************************************************)
(* Trait engine (src/types.ts) and persona store coordinator               *)
(* (src/memory/SupermemoryStore.ts, POST /sm/save handler of server.ts).   *)
(*                                                                         *)
(* Numbers: a trait value is an integer number of hundredths (0.56 is 56). *)
(* Intermediate values of the engine are exact rationals <<num, den>> with *)
(* den > 0; <<0, 0>> stands for NaN.  Number.toFixed(2) is round-half-up   *)
(* on the exact value.                                                     *)
(***************************************************************************)
EXTENDS Integers, Sequences, FiniteSets, TLC

VARIABLES engine, docs, saves, clock, faults, requests

vars == <<engine, docs, saves, clock, faults, requests>>

-----------------------------------------------------------------------------
(* Bounds                                                                  *)

MaxSaves == 2
MaxClock == 1
MaxFaults == 1

-----------------------------------------------------------------------------
(* Values                                                                  *)

NaN == 0 - 1
Null == 0 - 2
NaNRat == <<0, 0>>

Min(a, b) == IF a < b THEN a ELSE b
Max(a, b) == IF a > b THEN a ELSE b

TraitNames ==
  <<"aggression", "stealth", "curiosity", "puzzle_affinity",
    "independence", "resilience", "goal_focus">>

TraitSet == {TraitNames[i] : i \in 1..Len(TraitNames)}

StatFields ==
  {"time_s", "deaths", "retries", "distance_traveled", "jumps", "hint_offers",
   "hints_used", "riddles_attempted", "riddles_correct", "combats_initiated",
   "combats_won", "collectibles_found"}

defaultTraits == [t \in TraitSet |-> 50]

-----------------------------------------------------------------------------
(* Trait engine                                                            *)

IsNaNRat(x) == x[2] = 0

\* x / k for a rational x and a positive rational k = kn/kd
RatDiv(x, kn, kd) == IF IsNaNRat(x) THEN NaNRat ELSE <<x[1] * kd, x[2] * kn>>

\* a field read of an object: undefined when the key is absent
Has(stats, f) == f \notin stats.missing

\* mashing_intensity truthy ? min(mashing_intensity, 1) * 0.3 : 0, in thousandths
mashingBonus(stats) ==
  IF stats.has_mashing /\ stats.mashing_pct # 0
    THEN Min(stats.mashing_pct, 100) * 3
    ELSE 0

aggressionRaw(stats) ==
  IF Has(stats, "combats_initiated") /\ Has(stats, "combats_won")
    THEN <<1000 * stats.combats_initiated + 500 * stats.combats_won
             + mashingBonus(stats), 1000>>
    ELSE NaNRat

\* wrong attempts earn nothing
puzzleRawNoPartialCredit(stats) ==
  IF Has(stats, "riddles_correct") /\ Has(stats, "riddles_attempted")
    THEN <<stats.riddles_correct, 1>>
    ELSE NaNRat

puzzleRaw(stats) ==
  IF Has(stats, "riddles_correct") /\ Has(stats, "riddles_attempted")
    THEN <<5 * stats.riddles_correct
             + (stats.riddles_attempted - stats.riddles_correct), 5>>
    ELSE NaNRat

curiosityRaw(stats) ==
  IF Has(stats, "collectibles_found") /\ Has(stats, "distance_traveled")
    THEN <<3500 * stats.collectibles_found
             + 3 * Min(stats.distance_traveled, 500), 5000>>
    ELSE NaNRat

resilienceRaw(stats) ==
  IF Has(stats, "retries") /\ Has(stats, "deaths") /\ Has(stats, "time_s")
    THEN <<2400 * stats.retries + 1200 * stats.deaths
             - Min(stats.time_s, 600), 3000>>
    ELSE NaNRat

\* a perfect score for every run that was offered hints
independenceRawOffersOnly(stats) ==
  IF Has(stats, "hint_offers") /\ stats.hint_offers > 0
    THEN <<2, 2>>
    ELSE IF Has(stats, "hints_used")
           THEN <<Max(0, 2 - stats.hints_used), 2>>
           ELSE NaNRat

independenceRaw(stats) ==
  IF Has(stats, "hint_offers") /\ stats.hint_offers > 0
       /\ Has(stats, "hints_used") /\ stats.hints_used = 0
    THEN <<2, 2>>
    ELSE IF Has(stats, "hints_used")
           THEN <<Max(0, 2 - stats.hints_used), 2>>
           ELSE NaNRat

goalRaw(stats) ==
  IF Has(stats, "time_s")
    THEN <<(IF stats.time_s < 180 THEN 3000
                                  ELSE Max(0, 10 * (480 - stats.time_s)))
             + (IF Has(stats, "retries") /\ stats.retries = 0 THEN 600 ELSE 0)
             + 3 * mashingBonus(stats), 3000>>
    ELSE NaNRat

stealthRaw(stats) ==
  <<10 - (IF Has(stats, "combats_initiated") /\ stats.combats_initiated > 0
            THEN 6 ELSE 0)
       - (IF Has(stats, "deaths") /\ stats.deaths > 0 THEN 2 ELSE 0), 10>>

\* Math.max(0, Math.min(1, x)); NaN stays NaN
normUnclamped(x) == x

norm(x) ==
  IF IsNaNRat(x) THEN NaNRat ELSE <<Max(0, Min(x[2], x[1])), x[2]>>

\* the clamped normalized value of every trait, as a fraction of 1
normalized(stats) ==
  [aggression      |-> norm(RatDiv(aggressionRaw(stats), 5, 1)),
   stealth         |-> norm(stealthRaw(stats)),
   curiosity       |-> norm(RatDiv(curiosityRaw(stats), 5, 1)),
   puzzle_affinity |-> norm(RatDiv(puzzleRaw(stats), 3, 1)),
   independence    |-> norm(independenceRaw(stats)),
   resilience      |-> norm(RatDiv(resilienceRaw(stats), 3, 1)),
   goal_focus      |-> norm(RatDiv(goalRaw(stats), 14, 10))]

\* p == null ? c : 0.6*p + 0.4*c; c a fraction of 1, p and the result in
\* hundredths.  p is Null for undefined and for null.
blendSwapped(c, p) ==
  IF p = Null THEN (IF IsNaNRat(c) THEN NaNRat ELSE <<100 * c[1], c[2]>>)
  ELSE IF IsNaNRat(c) \/ p = NaN THEN NaNRat
  ELSE <<4 * p * c[2] + 600 * c[1], 10 * c[2]>>

\* an absent previous value taken as 0.5
blendDefaulting(c, p) ==
  IF IsNaNRat(c) \/ p = NaN THEN NaNRat
  ELSE <<6 * (IF p = Null THEN 50 ELSE p) * c[2] + 400 * c[1], 10 * c[2]>>

blend(c, p) ==
  IF p = Null THEN (IF IsNaNRat(c) THEN NaNRat ELSE <<100 * c[1], c[2]>>)
  ELSE IF IsNaNRat(c) \/ p = NaN THEN NaNRat
  ELSE <<6 * p * c[2] + 400 * c[1], 10 * c[2]>>

\* Number(n.toFixed(2)), n >= 0 in hundredths
roundTruncating(x) == IF IsNaNRat(x) THEN NaN ELSE x[1] \div x[2]

\* rounding up to the next hundredth
roundCeiling(x) ==
  IF IsNaNRat(x) THEN NaN ELSE (x[1] + x[2] - 1) \div x[2]

round(x) == IF IsNaNRat(x) THEN NaN ELSE (2 * x[1] + x[2]) \div (2 * x[2])

roundTraits(t) == [n \in TraitSet |-> round(t[n])]

\* prev is <<>> (undefined) or <<vector>>; prev?.trait
PrevOf(prev, n) == IF prev = <<>> THEN Null ELSE prev[1][n]

computeTraits(stats, prev) ==
  LET c == normalized(stats)
      t == [n \in TraitSet |-> blend(c[n], PrevOf(prev, n))]
  IN roundTraits(t)

\* Math.round of a non-negative rational
MathRound(x) == (2 * x[1] + x[2]) \div (2 * x[2])

\* Array.prototype.join
RECURSIVE join(_, _)
join(bits, sep) ==
  IF Len(bits) = 0 THEN ""
  ELSE IF Len(bits) = 1 THEN bits[1]
  ELSE bits[1] \o sep \o join(Tail(bits), sep)

\* t.trait > bound, bound in hundredths; false for NaN, and for null (0)
Above(v, bound) == v # NaN /\ v # Null /\ v > bound

\* the descriptor "balanced playstyle" for every vector, as if bits were
\* always empty
personaBitsNone(t) == <<>>

\* the first five statements of personaText
personaBits(t) ==
  (IF Above(t.puzzle_affinity, 60) THEN <<"puzzle-leaning">> ELSE <<>>)
    \o (IF Above(t.curiosity, 60) THEN <<"exploration-oriented">> ELSE <<>>)
    \o (IF Above(t.aggression, 50) THEN <<"combat-inclined">> ELSE <<>>)
    \o (IF Above(t.independence, 60) THEN <<"rarely uses hints">> ELSE <<>>)
    \o (IF Above(t.resilience, 60)
          THEN <<"bounces back after failures">> ELSE <<>>)

personaText(t) ==
  LET bits == IF Len(personaBits(t)) = 0 THEN <<"balanced playstyle">>
                                         ELSE personaBits(t)
      pct == IF t.goal_focus = NaN THEN "NaN"
             ELSE IF t.goal_focus = Null THEN "0"
             ELSE ToString(MathRound(<<100 * t.goal_focus, 100>>))
  IN "Shows " \o join(bits, ", ") \o "; goal focus " \o pct \o "%."

\* `${stats.field}`
Shown(stats, f) == IF Has(stats, f) THEN ToString(stats[f]) ELSE "undefined"

Positive(stats, f) == Has(stats, f) /\ stats[f] > 0

\* s.slice(-3): the last three
sliceLast(s) == IF Len(s) <= 3 THEN s ELSE SubSeq(s, Len(s) - 2, Len(s))

\* s.slice(0,3)
slice(s) == IF Len(s) <= 3 THEN s ELSE SubSeq(s, 1, 3)

topSignals(stats) ==
  slice(
    (IF Positive(stats, "riddles_correct")
       THEN <<"Solved " \o Shown(stats, "riddles_correct") \o " riddle(s)">>
       ELSE <<>>)
    \o (IF Positive(stats, "combats_initiated")
          THEN <<"Started " \o Shown(stats, "combats_initiated")
                   \o " combat(s), won " \o Shown(stats, "combats_won")>>
          ELSE <<>>)
    \o (IF Positive(stats, "collectibles_found")
          THEN <<"Found " \o Shown(stats, "collectibles_found")
                   \o " collectible(s)">>
          ELSE <<>>)
    \o (IF Positive(stats, "hints_used")
          THEN <<"Used " \o Shown(stats, "hints_used") \o " hint(s)">>
          ELSE <<>>)
    \o (IF Positive(stats, "retries")
          THEN <<"Retried " \o Shown(stats, "retries") \o " time(s)">>
          ELSE <<>>))

\* n.toFixed(2) of a non-negative number of hundredths
toFixed2(v) ==
  ToString(v \div 100) \o "." \o (IF v % 100 < 10 THEN "0" ELSE "")
    \o ToString(v % 100)

\* 'increased' also for an equal value
changeOfNonStrict(prevVal, newVal) ==
  IF newVal >= prevVal THEN "increased" ELSE "decreased"

\* formatChange: the direction word
changeOf(prevVal, newVal) ==
  IF newVal > prevVal THEN "increased"
  ELSE IF newVal < prevVal THEN "decreased"
  ELSE "unchanged"

\* formatChange(traitName, prevVal, newVal, reason); supplied tells whether
\* prevTraits was given
formatChange(supplied, traitName, prevVal, newVal, reason) ==
  traitName \o ": " \o changeOf(prevVal, newVal) \o " from "
    \o (IF supplied THEN toFixed2(prevVal) ELSE "default (0.50)")
    \o " to " \o toFixed2(newVal) \o ". " \o reason

\* reasons.length > 0 ? `${lead}: ${reasons.join(', ')}.` : none
reasonText(lead, reasons, none) ==
  IF Len(reasons) > 0 THEN lead \o ": " \o join(reasons, ", ") \o "."
  ELSE none

\* stats.mashing_intensity && stats.mashing_intensity > 0.5
HighMashing(stats) == stats.has_mashing /\ stats.mashing_pct > 50

aggReasons(stats) ==
  (IF Positive(stats, "combats_initiated")
     THEN <<"Started " \o Shown(stats, "combats_initiated") \o " combat(s)">>
     ELSE <<>>)
  \o (IF Positive(stats, "combats_won")
        THEN <<"won " \o Shown(stats, "combats_won") \o " combat(s)">>
        ELSE <<>>)
  \o (IF HighMashing(stats)
        THEN <<"high button mashing intensity ("
                 \o ToString(stats.mashing_pct) \o "%)">>
        ELSE <<>>)

stealthReasons(stats) ==
  (IF Positive(stats, "combats_initiated")
     THEN <<"combat engagement (" \o Shown(stats, "combats_initiated")
              \o " combat(s))">>
     ELSE <<>>)
  \o (IF Positive(stats, "deaths")
        THEN <<"death(s) (" \o Shown(stats, "deaths") \o ")">>
        ELSE <<>>)

curiosityReasons(stats) ==
  (IF Positive(stats, "collectibles_found")
     THEN <<"found " \o Shown(stats, "collectibles_found")
              \o " collectible(s)">>
     ELSE <<>>)
  \o (IF Positive(stats, "distance_traveled")
        THEN <<"traveled " \o Shown(stats, "distance_traveled") \o " units">>
        ELSE <<>>)

puzzleReasons(stats) ==
  (IF Positive(stats, "riddles_correct")
     THEN <<"solved " \o Shown(stats, "riddles_correct")
              \o " riddle(s) correctly">>
     ELSE <<>>)
  \o (IF Has(stats, "riddles_attempted") /\ Has(stats, "riddles_correct")
          /\ stats.riddles_attempted > stats.riddles_correct
        THEN <<"attempted "
                 \o ToString(stats.riddles_attempted - stats.riddles_correct)
                 \o " additional riddle(s)">>
        ELSE <<>>)

indepReasons(stats) ==
  IF Positive(stats, "hint_offers") /\ Has(stats, "hints_used")
       /\ stats.hints_used = 0
    THEN <<"hints offered but none used">>
    ELSE IF Positive(stats, "hints_used")
           THEN <<"used " \o Shown(stats, "hints_used") \o " hint(s)">>
           ELSE <<>>

resReasons(stats) ==
  (IF Positive(stats, "retries")
     THEN <<"retried " \o Shown(stats, "retries")
              \o " time(s) after failure">>
     ELSE <<>>)
  \o (IF Positive(stats, "deaths")
        THEN <<"experienced " \o Shown(stats, "deaths")
                 \o " death(s) but persisted">>
        ELSE <<>>)
  \o (IF Has(stats, "time_s") /\ stats.time_s < 600
        THEN <<"completed quickly (" \o Shown(stats, "time_s")
                 \o "s), potentially avoiding challenges">>
        ELSE <<>>)

goalReasons(stats) ==
  (IF Has(stats, "time_s") /\ stats.time_s < 180
     THEN <<"fast completion (" \o Shown(stats, "time_s") \o "s)">>
     ELSE <<>>)
  \o (IF Has(stats, "retries") /\ stats.retries = 0
        THEN <<"no retries needed">> ELSE <<>>)
  \o (IF HighMashing(stats)
        THEN <<"high button mashing intensity ("
                 \o ToString(stats.mashing_pct)
                 \o "%) indicating focused effort">>
        ELSE <<>>)

\* the reason sentence of each trait, in the order of the pushes
explanationReasons(stats) ==
  <<reasonText("Affected by", aggReasons(stats),
               "No combat activity or mashing detected."),
    reasonText("Decreased due to", stealthReasons(stats),
               "No combat or deaths detected."),
    reasonText("Affected by", curiosityReasons(stats),
               "Limited exploration and no collectibles found."),
    reasonText("Affected by", puzzleReasons(stats),
               "No puzzle-solving activity detected."),
    reasonText("Affected by", indepReasons(stats),
               "No hint activity detected."),
    reasonText("Affected by", resReasons(stats),
               "No failure recovery data detected."),
    reasonText("Affected by", goalReasons(stats),
               "Standard completion time and retries.")>>

\* the display names and trait fields of the seven pushes, in order
ExplainedTraits ==
  <<[name |-> "Aggression", trait |-> "aggression"],
    [name |-> "Stealth", trait |-> "stealth"],
    [name |-> "Curiosity", trait |-> "curiosity"],
    [name |-> "Puzzle Affinity", trait |-> "puzzle_affinity"],
    [name |-> "Independence", trait |-> "independence"],
    [name |-> "Resilience", trait |-> "resilience"],
    [name |-> "Goal Focus", trait |-> "goal_focus"]>>

\* generateTraitExplanations(stats, prevTraits, newTraits); prevTraits is <<>>
\* for undefined or <<vector>>
generateTraitExplanations(stats, prevTraits, newTraits) ==
  LET prev == IF prevTraits = <<>> THEN defaultTraits ELSE prevTraits[1]
  IN [k \in 1..Len(ExplainedTraits) |->
        formatChange(prevTraits # <<>>, ExplainedTraits[k].name,
                     prev[ExplainedTraits[k].trait],
                     newTraits[ExplainedTraits[k].trait],
                     explanationReasons(stats)[k])]

-----------------------------------------------------------------------------
(* Configuration and inputs of POST /sm/save                               *)

\* ENV.GAME_ID: process.env.GAME_ID || 'echorun', never empty
ENV_GAME_ID == "echorun"

Players == {"p1", "p2"}

Record(time_s, deaths, retries, distance, offers, used, attempted, correct,
       initiated, won, found, mashing, missing) ==
  [time_s |-> time_s, deaths |-> deaths, retries |-> retries,
   distance_traveled |-> distance, jumps |-> 10, hint_offers |-> offers,
   hints_used |-> used, riddles_attempted |-> attempted,
   riddles_correct |-> correct, combats_initiated |-> initiated,
   combats_won |-> won, collectibles_found |-> found,
   has_mashing |-> mashing # Null,
   mashing_pct |-> IF mashing = Null THEN 0 ELSE mashing,
   missing |-> missing]

\* the stats records clients send; the last one lacks a required field
StatsList ==
  <<Record(75, 1, 0, 300, 3, 0, 2, 1, 3, 2, 1, Null, {}),
    Record(900, 0, 2, 800, 0, 2, 0, 0, 0, 0, 12, 80, {}),
    Record(75, 1, 0, 300, 3, 0, 2, 1, 0, 2, 1, Null, {"combats_initiated"})>>

ValidStats == {1, 2}
MalformedStats == {3}

\* serverInput.game_context: absent, or with game_id, genre_ids, platform_ids
ContextList ==
  <<[present |-> FALSE, has_game_id |-> FALSE, game_id |-> "",
     genre_ids |-> <<>>, platform_ids |-> <<>>],
    [present |-> TRUE, has_game_id |-> TRUE, game_id |-> "g1",
     genre_ids |-> <<"rpg", "action">>, platform_ids |-> <<"pc", "console">>],
    [present |-> TRUE, has_game_id |-> TRUE, game_id |-> "",
     genre_ids |-> <<"puzzle", "rpg">>, platform_ids |-> <<>>]>>

Contexts == 1..Len(ContextList)

\* request bodies: with a serverInput, or without one
Bodies(statsIds) ==
  {[has_input |-> TRUE, player_id |-> p, stats |-> s, ctx |-> c] :
     p \in Players, s \in statsIds, c \in Contexts}
  \cup {[has_input |-> FALSE, player_id |-> "p1", stats |-> 1, ctx |-> 1]}

-----------------------------------------------------------------------------
(* Store documents                                                         *)

GlobalKey == [scope |-> "global", id |-> ""]
ScopeKeyOf(scope, id) == [scope |-> scope, id |-> id]

\* the scope's kind only, without the id of the game, genre or platform
scopeIdKindOnly(key) == key.scope

\* createTraitMemories: the customId of one trait memory
scopeId(key) ==
  IF key.scope = "global" THEN "global" ELSE key.scope \o "_" \o key.id

\* a customId that changes with every save (as upsertPersonaDoc builds them)
customIdStamped(playerId, key, gameId, traitName) ==
  "memory_" \o playerId \o "_" \o scopeId(key) \o "_" \o traitName
    \o "_" \o ToString(clock)

customId(playerId, key, gameId, traitName) ==
  IF key.scope = "global"
    THEN "memory_" \o playerId \o "_" \o scopeId(key) \o "_"
           \o (IF gameId # "" THEN gameId ELSE "unknown") \o "_" \o traitName
    ELSE "memory_" \o playerId \o "_" \o scopeId(key) \o "_" \o traitName

\* createTraitMemories(playerId, traits, scope, metadata) at time now;
\* metadata.game_id is the save's gameId
createTraitMemories(playerId, traits, key, gameId, now) ==
  [i \in 1..Len(TraitNames) |->
     [customId     |-> customId(playerId, key, gameId, TraitNames[i]),
      containerTag |-> playerId,
      player_id    |-> playerId,
      trait_name   |-> TraitNames[i],
      trait_value  |-> traits[TraitNames[i]],
      persona_scope |-> key.scope,
      updated_at   |-> now,
      game_id      |-> gameId,
      genre_id     |-> IF key.scope = "genre" THEN key.id ELSE "",
      platform_id  |-> IF key.scope = "platform" THEN key.id ELSE ""]]

\* JSON.stringify of a number: NaN becomes null
toJSON(v) == IF v = NaN THEN Null ELSE v

Reverse(seq) == [i \in 1..Len(seq) |-> seq[Len(seq) + 1 - i]]

\* the store's answer to list(filters, ..., 'desc', ..., [userNode]) of
\* fetchLatestPersona: matching documents, newest createdAt first
Matches(d, playerId, key) ==
  /\ d.containerTag = playerId
  /\ d.player_id = playerId
  /\ d.persona_scope = key.scope
  /\ key.scope = "game" => d.game_id = key.id
  /\ key.scope = "genre" => d.genre_id = key.id
  /\ key.scope = "platform" => d.platform_id = key.id

listMemories(store, playerId, key) ==
  LET Test(d) == Matches(d, playerId, key)
  IN Reverse(SelectSeq(store, Test))

\* !traits[name]: no value yet, or a falsy one (0, null)
Falsy(traits, name) ==
  \/ name \notin DOMAIN traits
  \/ traits[name] = 0
  \/ traits[name] = Null

\* the aggregation loop of fetchLatestPersona over memories[k..];
\* acc = [traits, latestUpdated], latestUpdated = -1 for ''
RECURSIVE aggregate(_, _, _)
aggregate(memories, k, acc) ==
  IF k > Len(memories) THEN acc
  ELSE LET m == memories[k]
           take == Falsy(acc.traits, m.trait_name)
                     \/ m.updated_at >= acc.latestUpdated
       IN aggregate(memories, k + 1,
            IF take
              THEN [traits |->
                      [n \in DOMAIN acc.traits \cup {m.trait_name} |->
                         IF n = m.trait_name THEN m.trait_value
                                             ELSE acc.traits[n]],
                    latestUpdated |-> Max(acc.latestUpdated, m.updated_at)]
              ELSE acc)

\* a persona from whatever traits the memories cover
personaFromMemoriesPartial(memories) ==
  LET acc == aggregate(memories, 1, [traits |-> <<>>, latestUpdated |-> 0 - 1])
  IN IF Len(memories) = 0 THEN <<>>
     ELSE <<[n \in TraitSet |->
               IF n \in DOMAIN acc.traits THEN acc.traits[n] ELSE Null]>>

\* fetchLatestPersona after the list call: <<>> for null, <<traits>> for a
\* persona
personaFromMemories(memories) ==
  LET acc == aggregate(memories, 1, [traits |-> <<>>, latestUpdated |-> 0 - 1])
  IN IF Len(memories) = 0 THEN <<>>
     ELSE IF DOMAIN acc.traits # TraitSet THEN <<>>
     ELSE <<acc.traits>>

\* fetchLatestPersona(playerId, key) when list answers
fetchLatestPersona(store, playerId, key) ==
  personaFromMemories(listMemories(store, playerId, key))

\* fetchByFilters: the memories left by its filters for (player, scope-key)
filteredMemories(store, playerId, key) ==
  LET Test(d) ==
        /\ d.containerTag = playerId
        /\ d.player_id = playerId
        /\ d.persona_scope = key.scope
        /\ (key.scope = "game" /\ key.id # "") => d.game_id = key.id
        /\ (key.scope = "genre" /\ key.id # "") => d.genre_id = key.id
        /\ (key.scope = "platform" /\ key.id # "") => d.platform_id = key.id
  IN Reverse(SelectSeq(store, Test))

\* fetchByFilters: the loop over the memories of one scope group;
\* acc = [traits, stamps], stamps the updated_at of the memory kept per trait
RECURSIVE aggregateByTrait(_, _, _)
aggregateByTrait(memories, k, acc) ==
  IF k > Len(memories) THEN acc
  ELSE LET m == memories[k]
           n == m.trait_name
           take == n \notin DOMAIN acc.stamps \/ m.updated_at >= acc.stamps[n]
       IN aggregateByTrait(memories, k + 1,
            IF take
              THEN [traits |-> [x \in DOMAIN acc.traits \cup {n} |->
                                  IF x = n THEN m.trait_value
                                           ELSE acc.traits[x]],
                    stamps |-> [x \in DOMAIN acc.stamps \cup {n} |->
                                  IF x = n THEN m.updated_at
                                           ELSE acc.stamps[x]]]
              ELSE acc)

\* fetchByFilters for the memories of one scope group: <<>> when the group is
\* dropped, <<traits>> for the persona reported
personaByFilters(memories) ==
  LET acc == aggregateByTrait(memories, 1, [traits |-> <<>>, stamps |-> <<>>])
  IN IF DOMAIN acc.traits # TraitSet THEN <<>> ELSE <<acc.traits>>

fetchByFilters(store, playerId, key) ==
  personaByFilters(filteredMemories(store, playerId, key))

\* prev?.persona?.traits || defaultTraits: the vector a scope block of save
\* s hands to buildSnapshot after its lookup returned found, <<vector>>
effectivePrevRaw(s, found) == found

effectivePrevOfGlobal(s, found) ==
  IF Len(s.lookups) > 0 THEN s.lookups[1].prev
  ELSE IF found = <<>> THEN <<defaultTraits>> ELSE found

effectivePrev(s, found) ==
  IF found = <<>> THEN <<defaultTraits>> ELSE found

\* the PersonaSnapshot fetchLatestPersona builds from the aggregated traits:
\* the text is generated again, the signals are not stored
personaOf(found) ==
  IF found = <<>> THEN <<>>
  ELSE <<[traits |-> found[1],
          persona_text |-> personaText(found[1]),
          top_signals |-> <<>>]>>

\* buildSnapshot(playerId, stats, prev)
buildSnapshot(stats, prev) ==
  LET traits == computeTraits(stats, prev)
  IN [traits |-> traits,
      persona_text |-> personaText(traits),
      top_signals |-> topSignals(stats)]

\* the store applying one batch: a document with a known customId replaces
\* the stored one in place, a new one is appended
RECURSIVE applyBatch(_, _, _)
applyBatch(store, batch, k) ==
  IF k > Len(batch) THEN store
  ELSE LET d == [batch[k] EXCEPT !.trait_value = toJSON(@)]
           hit == {i \in 1..Len(store) : store[i].customId = d.customId}
       IN applyBatch(
            IF hit = {} THEN Append(store, d)
            ELSE [i \in 1..Len(store) |-> IF i \in hit THEN d ELSE store[i]],
            batch, k + 1)

-----------------------------------------------------------------------------
(* POST /sm/save: handler and saveFromServerInput, one step per await      *)

Saves == 1..MaxSaves

NewSave ==
  [pc |-> "new",
   body |-> [has_input |-> FALSE, player_id |-> "p1", stats |-> 1, ctx |-> 1],
   gameId |-> "", genres |-> <<>>, platforms |-> <<>>,
   lookups |-> <<>>, allMemories |-> <<>>,
   status |-> 0, cause |-> "", first |-> {}, persisted |-> {}, wrote |-> 0,
   response |-> <<>>]

Init ==
  /\ engine = <<>>
  /\ docs = <<>>
  /\ saves = [i \in Saves |-> NewSave]
  /\ clock = 0
  /\ faults = 0
  /\ requests = Bodies(ValidStats)

InitAnyBody ==
  /\ engine = <<>>
  /\ docs = <<>>
  /\ saves = [i \in Saves |-> NewSave]
  /\ clock = 0
  /\ faults = 0
  /\ requests = Bodies(ValidStats \cup MalformedStats)

\* the scope blocks of saveFromServerInput that follow a given one
AfterPlatform(s) == "batch"
AfterGenre(s) == IF Len(s.platforms) > 0 THEN "platform" ELSE AfterPlatform(s)
AfterGame(s) == IF Len(s.genres) > 0 THEN "genre" ELSE AfterGenre(s)
AfterGlobalSkipsGame(s) == AfterGame(s)
AfterGlobal(s) == IF s.gameId # "" THEN "game" ELSE AfterGame(s)

\* the scope key a block looks up and writes
KeyAtLast(s) ==
  CASE s.pc = "global"   -> GlobalKey
    [] s.pc = "game"     -> ScopeKeyOf("game", s.gameId)
    [] s.pc = "genre"    -> ScopeKeyOf("genre", s.genres[Len(s.genres)])
    [] s.pc = "platform" -> ScopeKeyOf("platform", s.platforms[Len(s.platforms)])

KeyAt(s) ==
  CASE s.pc = "global"   -> GlobalKey
    [] s.pc = "game"     -> ScopeKeyOf("game", s.gameId)
    [] s.pc = "genre"    -> ScopeKeyOf("genre", s.genres[1])
    [] s.pc = "platform" -> ScopeKeyOf("platform", s.platforms[1])

PcAfter(s) ==
  CASE s.pc = "global"   -> AfterGlobal(s)
    [] s.pc = "game"     -> AfterGame(s)
    [] s.pc = "genre"    -> AfterGenre(s)
    [] s.pc = "platform" -> AfterPlatform(s)

\* the handler up to the first await: 400 without a serverInput, else the
\* context extraction and the entry of saveFromServerInput
Receive(i) ==
  /\ saves[i].pc = "new"
  /\ i > 1 => saves[i - 1].pc # "new"
  /\ \E body \in requests :
       LET ctx == ContextList[body.ctx]
       IN saves' = [saves EXCEPT ![i] =
            IF ~body.has_input
              THEN [@ EXCEPT !.pc = "done", !.body = body, !.status = 400,
                             !.response = [error |-> "serverInput required"]]
              ELSE [@ EXCEPT
                      !.pc = "global",
                      !.body = body,
                      !.gameId = IF ctx.has_game_id THEN ctx.game_id
                                                     ELSE ENV_GAME_ID,
                      !.genres = ctx.genre_ids,
                      !.platforms = ctx.platform_ids]]
  /\ UNCHANGED <<engine, docs, clock, faults, requests>>

\* one scope block: the lookup answers, the snapshot is built and its trait
\* memories are collected
Block(i, scope) ==
  /\ saves[i].pc = scope
  /\ LET s == saves[i]
         key == KeyAt(s)
         found == fetchLatestPersona(docs, s.body.player_id, key)
         prev == effectivePrev(s, found)
         snapshot == buildSnapshot(StatsList[s.body.stats], prev)
         traits == snapshot.traits
         mems == createTraitMemories(s.body.player_id, traits, key,
                                     s.gameId, clock)
     IN saves' = [saves EXCEPT ![i] =
          [@ EXCEPT !.pc = PcAfter(s),
                    !.lookups = Append(@, [key |-> key, found |-> found,
                                           prev |-> prev,
                                           traits |-> traits,
                                           snapshot |-> snapshot]),
                    !.allMemories = @ \o mems]]
  /\ UNCHANGED <<engine, docs, clock, faults, requests>>

FetchGlobal(i) == Block(i, "global")
FetchGame(i) == Block(i, "game")
FetchGenre(i) == Block(i, "genre")
FetchPlatform(i) == Block(i, "platform")

\* list throws (a non-OK answer after its retries): fetchLatestPersona and
\* saveFromServerInput rethrow, the handler answers 502
FetchThrows(i) ==
  /\ saves[i].pc \in {"global", "game", "genre", "platform"}
  /\ faults < MaxFaults
  /\ faults' = faults + 1
  /\ saves' = [saves EXCEPT ![i] =
       [@ EXCEPT !.pc = "done", !.status = 502, !.cause = "read",
                 !.response = [error |-> "supermemory_save_failed"]]]
  /\ UNCHANGED <<engine, docs, clock, requests>>

WriteCount == Cardinality({j \in Saves : saves[j].wrote > 0})

\* the memories a save collected for its k-th scope block
MemoriesOf(s, k) ==
  SubSeq(s.allMemories, (k - 1) * Len(TraitNames) + 1, k * Len(TraitNames))

Stored(store, d) ==
  \E j \in 1..Len(store) : store[j] = [d EXCEPT !.trait_value = toJSON(@)]

\* the scope blocks of a save whose memories the store holds
PersistedIn(store, s) ==
  {k \in 1..Len(s.lookups) :
     \A m \in 1..Len(TraitNames) : Stored(store, MemoriesOf(s, k)[m])}

\* batchCreate(allMemories) answers OK: the handler answers 200
BatchCreate(i) ==
  /\ saves[i].pc = "batch"
  /\ LET s == saves[i]
     IN /\ docs' = applyBatch(docs, s.allMemories, 1)
        /\ saves' = [saves EXCEPT ![i] =
             [@ EXCEPT
                !.pc = "done", !.status = 200,
                !.response = [user_node |-> s.body.player_id,
                              memories_created |-> Len(s.allMemories),
                              batch_result |-> Len(s.allMemories)],
                !.wrote = WriteCount + 1,
                !.persisted = PersistedIn(docs', s),
                !.first = {k \in 1..Len(s.lookups) :
                             listMemories(docs, s.body.player_id,
                                          s.lookups[k].key) = <<>>}]]
  /\ UNCHANGED <<engine, clock, faults, requests>>

\* batchCreate throws: nothing of the batch is stored, the handler answers 502
BatchCreateThrows(i) ==
  /\ saves[i].pc = "batch"
  /\ faults < MaxFaults
  /\ faults' = faults + 1
  /\ saves' = [saves EXCEPT ![i] =
       [@ EXCEPT !.pc = "done", !.status = 502, !.cause = "write",
                 !.response = [error |-> "supermemory_save_failed"],
                 !.persisted = PersistedIn(docs, saves[i])]]
  /\ UNCHANGED <<engine, docs, clock, requests>>

StampsUsed ==
  UNION {{saves[i].allMemories[k].updated_at :
            k \in 1..Len(saves[i].allMemories)} : i \in Saves}

\* new Date() moves on.  Timestamps are only ever compared with each other,
\* so time is counted in distinct stamps: it moves on once the current
\* instant has stamped a memory.
Tick ==
  /\ clock < MaxClock
  /\ clock \in StampsUsed
  /\ clock' = clock + 1
  /\ UNCHANGED <<engine, docs, saves, faults, requests>>

Next ==
  \/ \E i \in Saves : Receive(i)
  \/ \E i \in Saves : FetchGlobal(i)
  \/ \E i \in Saves : FetchGame(i)
  \/ \E i \in Saves : FetchGenre(i)
  \/ \E i \in Saves : FetchPlatform(i)
  \/ \E i \in Saves : FetchThrows(i)
  \/ \E i \in Saves : BatchCreate(i)
  \/ \E i \in Saves : BatchCreateThrows(i)
  \/ Tick

Spec == Init /\ [][Next]_vars

SpecAnyBody == InitAnyBody /\ [][Next]_vars

-----------------------------------------------------------------------------
(* Inputs of the engine specification                                      *)

WellFormed(f) ==
  [time_s |-> f[1], deaths |-> f[2], retries |-> f[3],
   distance_traveled |-> f[4], jumps |-> 10, hint_offers |-> f[5],
   hints_used |-> f[6], riddles_attempted |-> f[7], riddles_correct |-> f[8],
   combats_initiated |-> f[9], combats_won |-> f[10],
   collectibles_found |-> f[11],
   has_mashing |-> f[12] # Null, mashing_pct |-> IF f[12] = Null THEN 0 ELSE f[12],
   missing |-> {}]

\* completion times: fast, around the middle of the goal-focus ramp, and
\* beyond the 600 s cap
EngineTimes == {75, 271, 330, 900}

\* finite numeric fields, with large and negative counters
EngineStats ==
  {WellFormed(f) : f \in
     EngineTimes \X {0, 1} \X {0, 1, 800} \X {0 - 40, 300}
       \X {0, 3} \X {0, 1, 3} \X {0, 5} \X {0, 2}
       \X {0 - 2, 0, 3} \X {0, 2} \X {0, 12} \X {Null, 50, 150}}

EnginePrevs ==
  {<<>>} \cup {<<[t \in TraitSet |-> p]>> : p \in {50, 80, 100}}

EngineInit ==
  /\ engine = <<>>
  /\ docs = <<>>
  /\ saves = <<>>
  /\ clock = 0
  /\ faults = 0
  /\ requests = {}

\* one call computeTraits(stats, prev)
Compute ==
  /\ engine = <<>>
  /\ \E stats \in EngineStats, prev \in EnginePrevs :
       engine' = <<[stats |-> stats, prev |-> prev,
                    out |-> computeTraits(stats, prev)]>>
  /\ UNCHANGED <<docs, saves, clock, faults, requests>>

EngineNext == Compute

SpecEngine == EngineInit /\ [][EngineNext]_vars

-----------------------------------------------------------------------------
(* Inputs of the text specification                                        *)

\* trait vectors below, on and above the thresholds of personaText
TextTraits ==
  {[aggression |-> f[1], stealth |-> 40, curiosity |-> f[2],
    puzzle_affinity |-> f[3], independence |-> f[4], resilience |-> f[5],
    goal_focus |-> f[6]] : f \in
     {40, 50, 51} \X {40, 60, 61} \X {40, 60, 61} \X {40, 60, 61}
       \X {40, 60, 61} \X {0, 40, 86, 100}}

\* stats with each of the five signal counters zero, negative or positive
SignalStats ==
  {WellFormed(<<75, 0, f[5], 300, 3, f[4], 5, f[1], f[2], 10, f[3], Null>>) :
     f \in {0, 5} \X {0 - 2, 0, 10} \X {0, 12} \X {0, 2} \X {0, 3}}

\* one call personaText(t)
DescribeTraits ==
  /\ engine = <<>>
  /\ \E t \in TextTraits :
       engine' = <<[call |-> "personaText", traits |-> t,
                    text |-> personaText(t)]>>
  /\ UNCHANGED <<docs, saves, clock, faults, requests>>

\* one call topSignals(stats)
ExtractSignals ==
  /\ engine = <<>>
  /\ \E stats \in SignalStats :
       engine' = <<[call |-> "topSignals", stats |-> stats,
                    signals |-> topSignals(stats)]>>
  /\ UNCHANGED <<docs, saves, clock, faults, requests>>

\* new trait vectors below, at and above the previous values
ExplainTraits ==
  {[aggression |-> f[1], stealth |-> f[2], curiosity |-> f[3],
    puzzle_affinity |-> f[4], independence |-> f[5], resilience |-> f[6],
    goal_focus |-> f[7]] : f \in
     {30, 50, 100} \X {30, 50} \X {5, 50} \X {30, 50, 70} \X {50, 70}
       \X {0, 50} \X {30, 50, 86}}

ExplainPrevs == {<<>>, <<defaultTraits>>, <<[t \in TraitSet |-> 30]>>}

ExplainStats ==
  {WellFormed(<<75, 0, 0, 300, 3, 0, 5, 2, 3, 2, 1, Null>>),
   WellFormed(<<900, 1, 2, 0, 0, 2, 0, 0, 0, 0, 0, 80>>)}

\* one call generateTraitExplanations(stats, prevTraits, newTraits)
Explain ==
  /\ engine = <<>>
  /\ \E stats \in ExplainStats, prev \in ExplainPrevs, t \in ExplainTraits :
       engine' = <<[call |-> "generateTraitExplanations", stats |-> stats,
                    prev |-> prev, traits |-> t,
                    explanations |->
                      generateTraitExplanations(stats, prev, t)]>>
  /\ UNCHANGED <<docs, saves, clock, faults, requests>>

TextNext == DescribeTraits \/ ExtractSignals \/ Explain

SpecText == EngineInit /\ [][TextNext]_vars

-----------------------------------------------------------------------------
(* Inputs of the read specification: the lists a scope lookup may receive  *)

ReadStamps == {1, 2, 3}

\* one trait memory as the aggregation loops read it
ReadMemory(trait, stamp, value) ==
  [trait_name |-> trait, trait_value |-> value, updated_at |-> stamp]

\* memories of two traits with any stamp, and a value of 0 or one that tells
\* the stamp
VariedMemories ==
  {ReadMemory(t, u, v * u) :
     t \in {"aggression", "stealth"}, u \in ReadStamps, v \in {0, 20}}

VariedLists ==
  {<<>>} \cup {<<a>> : a \in VariedMemories}
    \cup {<<a, b>> : a \in VariedMemories, b \in VariedMemories}
    \cup {<<a, b, c>> : a \in VariedMemories, b \in VariedMemories,
                        c \in VariedMemories}

\* the memories of the other traits, all five of them or with one missing
OtherMemories(names) ==
  LET rest == SelectSeq(TraitNames, LAMBDA n : n \in names)
  IN [k \in 1..Len(rest) |-> ReadMemory(rest[k], 2, 50)]

OtherLists ==
  {OtherMemories(TraitSet \ {"aggression", "stealth"}),
   OtherMemories(TraitSet \ {"aggression", "stealth", "goal_focus"}),
   <<>>}

MemoryLists ==
  {v \o o : v \in VariedLists, o \in OtherLists}
    \cup {o \o v : v \in VariedLists, o \in OtherLists}

\* fetchLatestPersona on one answer of the store, and the previous vector
\* the coordinator takes from it
LatestPersona ==
  /\ engine = <<>>
  /\ \E memories \in MemoryLists :
       LET found == personaFromMemories(memories)
       IN engine' = <<[call |-> "fetchLatestPersona", memories |-> memories,
                       persona |-> found,
                       prev |-> effectivePrev(NewSave, found)]>>
  /\ UNCHANGED <<docs, saves, clock, faults, requests>>

\* fetchByFilters on one answer of the store
PersonasByFilters ==
  /\ engine = <<>>
  /\ \E memories \in MemoryLists :
       engine' = <<[call |-> "fetchByFilters", memories |-> memories,
                    persona |-> personaByFilters(memories)]>>
  /\ UNCHANGED <<docs, saves, clock, faults, requests>>

ReadNext == LatestPersona \/ PersonasByFilters

SpecRead == EngineInit /\ [][ReadNext]_vars

-----------------------------------------------------------------------------
(* The routes of server.ts and the API-key middleware                      *)

\* a header is <<>> when absent, <<value>> when present; an Authorization
\* value is [prefix, rest], the string prefix \o rest
HealthPath == "/health"
ApiPaths == {"/sm/save", "/sm/personas", "/sm/doc/:id"}

KeyHeaders == {<<>>, <<"">>, <<"k1">>, <<"k9">>}

AuthHeaders ==
  {<<>>} \cup {<<[prefix |-> p, rest |-> r]>> :
                 p \in {"Bearer ", "bearer ", "Basic "}, r \in {"", "k2", "k9"}}

\* ENV.API_KEYS after parseApiKeys: none, or the configured keys
KeyConfigs == {{}, {"k1", "k2"}}

\* the key the middleware reads: x-api-key, else the Bearer credential;
\* <<>> when there is none or it is empty
apiKeyOf(req) ==
  IF req.xApiKey # <<>> /\ req.xApiKey[1] # "" THEN req.xApiKey
  ELSE IF req.authorization # <<>>
            /\ req.authorization[1].prefix = "Bearer "
            /\ req.authorization[1].rest # ""
         THEN <<req.authorization[1].rest>>
         ELSE <<>>

\* every key accepted
keyAcceptedAny(validKeys, apiKey) == TRUE

\* validKeys.includes(apiKey)
keyAccepted(validKeys, apiKey) == apiKey \in validKeys

\* requireApiKey: 0 for next(), else the status it answers
requireApiKey(req, validKeys) ==
  IF apiKeyOf(req) = <<>> THEN 401
  ELSE IF validKeys = {} THEN 500
  ELSE IF ~keyAccepted(validKeys, apiKeyOf(req)[1]) THEN 403
  ELSE 0

\* GET /health: registered before the middleware, answered without a key
Health ==
  /\ engine = <<>>
  /\ \E x \in KeyHeaders, a \in AuthHeaders, keys \in KeyConfigs :
       engine' = <<[call |-> "request",
                    req |-> [path |-> HealthPath, xApiKey |-> x,
                             authorization |-> a],
                    keys |-> keys, status |-> 200, handler |-> HealthPath,
                    store |-> FALSE]>>
  /\ UNCHANGED <<docs, saves, clock, faults, requests>>

\* a request for an API route: the middleware, then the route's handler,
\* which calls the store
Api ==
  /\ engine = <<>>
  /\ \E path \in ApiPaths, x \in KeyHeaders, a \in AuthHeaders,
        keys \in KeyConfigs :
       LET req == [path |-> path, xApiKey |-> x, authorization |-> a]
           denied == requireApiKey(req, keys)
       IN engine' = <<[call |-> "request", req |-> req, keys |-> keys,
                       status |-> denied,
                       handler |-> IF denied = 0 THEN path ELSE "",
                       store |-> denied = 0 /\ path # HealthPath]>>
  /\ UNCHANGED <<docs, saves, clock, faults, requests>>

AuthNext == Health \/ Api

SpecAuth == EngineInit /\ [][AuthNext]_vars

-----------------------------------------------------------------------------
(* Inputs of the storage-key specification                                 *)

\* player and game ids as clients choose them; ids may contain the
\* underscore that also separates the parts of a customId
KeyPlayers == {"a", "a_game_b"}
KeyGames == {"c", "b_game_c"}

\* the (player, scope key, game of the save) triples createTraitMemories is
\* called with: the game scope is that of the save's own game
KeyOwners ==
  {[playerId |-> p, key |-> k, gameId |-> g] :
     p \in KeyPlayers,
     k \in {GlobalKey, ScopeKeyOf("genre", "rpg"), ScopeKeyOf("platform", "pc")},
     g \in KeyGames}
  \cup {[playerId |-> p, key |-> ScopeKeyOf("game", g), gameId |-> g] :
          p \in KeyPlayers, g \in KeyGames}

\* the customId of two trait memories
MakeIds ==
  /\ engine = <<>>
  /\ \E o1 \in KeyOwners, o2 \in KeyOwners, t1 \in TraitSet, t2 \in TraitSet :
       engine' = <<[call |-> "customId",
                    first |-> [owner |-> o1, trait |-> t1,
                               id |-> customId(o1.playerId, o1.key,
                                               o1.gameId, t1)],
                    second |-> [owner |-> o2, trait |-> t2,
                                id |-> customId(o2.playerId, o2.key,
                                                o2.gameId, t2)]]>>
  /\ UNCHANGED <<docs, saves, clock, faults, requests>>

KeysNext == MakeIds

SpecKeys == EngineInit /\ [][KeysNext]_vars

-----------------------------------------------------------------------------
(* SupermemoryStore.list: one call, request by request                     *)

\* the answers of the store: HTTP statuses, with the number of memories in
\* the body of an OK answer; status 0 stands for a fetch that rejects
ListStatuses == {200, 400, 404, 500, 503}
ListBodies == {0, 2}

\* res.ok
Ok(status) == status >= 200 /\ status <= 299

\* a retry after any answer that is not OK
shouldRetryAnyError(status, retries) == retries < 3

\* (res.status === 404 || res.status >= 500) && retries < 3
shouldRetry(status, retries) ==
  (status = 404 \/ status >= 500) /\ retries < 3

\* [2000, 4000, 6000][retries] || 4000
waitTime(retries) ==
  IF retries < 3 THEN <<2000, 4000, 6000>>[retries + 1] ELSE 4000

\* list(filters, ...) is called with retries = 0 and sends its request
ListCall ==
  /\ engine = <<>>
  /\ engine' = <<[call |-> "list", pc |-> "fetch", retries |-> 0, sent |-> 1,
                  answers |-> <<>>, waited |-> <<>>, result |-> <<>>]>>
  /\ UNCHANGED <<docs, saves, clock, faults, requests>>

OnFetch == engine # <<>> /\ engine[1].call = "list" /\ engine[1].pc = "fetch"

\* the store answers OK: the parsed body is returned
ListOk ==
  /\ OnFetch
  /\ \E status \in {st \in ListStatuses : Ok(st)}, count \in ListBodies :
       engine' = <<[engine[1] EXCEPT !.pc = "returned",
                                     !.answers = Append(@, status),
                                     !.result = <<count>>]>>
  /\ UNCHANGED <<docs, saves, clock, faults, requests>>

\* the store answers with another status: wait and call again, or throw
ListNotOk ==
  /\ OnFetch
  /\ \E status \in {st \in ListStatuses : ~Ok(st)} :
       engine' = <<[engine[1] EXCEPT
                      !.answers = Append(@, status),
                      !.pc = IF shouldRetry(status, engine[1].retries)
                               THEN "wait" ELSE "thrown",
                      !.waited = IF shouldRetry(status, engine[1].retries)
                                   THEN Append(@, waitTime(engine[1].retries))
                                   ELSE @]>>
  /\ UNCHANGED <<docs, saves, clock, faults, requests>>

\* fetch rejects (no answer from the network): the error leaves list
ListFetchRejects ==
  /\ OnFetch
  /\ engine' = <<[engine[1] EXCEPT !.pc = "thrown", !.answers = Append(@, 0)]>>
  /\ UNCHANGED <<docs, saves, clock, faults, requests>>

\* the timer fires: list calls itself with retries + 1 and sends again
ListRetry ==
  /\ engine # <<>> /\ engine[1].call = "list" /\ engine[1].pc = "wait"
  /\ engine' = <<[engine[1] EXCEPT !.pc = "fetch", !.retries = @ + 1,
                                   !.sent = @ + 1]>>
  /\ UNCHANGED <<docs, saves, clock, faults, requests>>

ListStep == ListOk \/ ListNotOk \/ ListFetchRejects \/ ListRetry

ListNext == ListCall \/ ListStep

SpecList == EngineInit /\ [][ListNext]_vars

\* every request is answered or rejected, and every timer fires
SpecListFair == SpecList /\ WF_vars(ListStep)

-----------------------------------------------------------------------------
(* One client saving record after record, each after the answer to the one *)
(* before                                                                  *)

\* the client's requests: player p1, game g1 with a genre and a platform, so
\* that every save runs all four scope blocks on the same four scope keys.
\* Each key then holds one memory per trait and the stamps decide nothing:
\* the clock is left alone.
ChainBodies ==
  {[has_input |-> TRUE, player_id |-> "p1", stats |-> st, ctx |-> 2] :
     st \in ValidStats}

ChainInit ==
  /\ engine = <<>>
  /\ docs = <<>>
  /\ saves = [i \in Saves |-> NewSave]
  /\ clock = 0
  /\ faults = 0
  /\ requests = ChainBodies

\* the handler has answered; its next request starts from scratch
Again ==
  /\ saves[1].pc = "done"
  /\ saves' = [saves EXCEPT ![1] = NewSave]
  /\ UNCHANGED <<engine, docs, clock, faults, requests>>

\* from now on the client sends the same record every time
Settle ==
  /\ Cardinality(requests) > 1
  /\ \E body \in requests : requests' = {body}
  /\ UNCHANGED <<engine, docs, saves, clock, faults>>

ChainSave ==
  \/ Receive(1)
  \/ FetchGlobal(1)
  \/ FetchGame(1)
  \/ FetchGenre(1)
  \/ FetchPlatform(1)
  \/ BatchCreate(1)
  \/ Again

ChainNext == ChainSave \/ Settle

SpecChain == ChainInit /\ [][ChainNext]_vars

\* The client never stops saving and the handler always answers.  Some step
\* of ChainSave is enabled in every state, so weak fairness of ChainSave is
\* the same as infinitely many of its steps.
SpecChainFair ==
  SpecChain /\ WF_vars(Again) /\ []<><<ChainSave>>_vars

-----------------------------------------------------------------------------
(* Claims about the engine                                                 *)

\* C1: for finite stats (large and negative counters included) and a previous
\* vector that is absent or within [0,1], every returned trait is a number
\* within [0,1].
C1_TraitsInUnitRange ==
  \A i \in 1..Len(engine) : \A n \in TraitSet :
    /\ engine[i].out[n] # NaN
    /\ engine[i].out[n] >= 0
    /\ engine[i].out[n] <= 100

C1_Witness ==
  \E i \in 1..Len(engine) :
    /\ engine[i].stats.retries = 800
    /\ engine[i].stats.combats_initiated < 0
    /\ engine[i].stats.distance_traveled < 0
    /\ engine[i].prev = <<defaultTraits>>
    /\ engine[i].out.resilience = 70
    /\ engine[i].out.aggression = 30

\* C2: with a previous value p the result is the hundredth nearest to
\* 0.6*p + 0.4*n (ties upwards), n the clamped normalized value; with no
\* previous vector it is the hundredth nearest to n.  p = 0.80, n = 0.20
\* gives 0.56.
Nearest(r, num, den) ==
  /\ 2 * r * den <= 2 * num + den
  /\ 2 * num + den < 2 * (r + 1) * den

C2_BlendLaw ==
  \A i \in 1..Len(engine) : \A n \in TraitSet :
    LET c == normalized(engine[i].stats)[n]
        r == engine[i].out[n]
    IN IF engine[i].prev = <<>>
         THEN Nearest(r, 100 * c[1], c[2])
         ELSE LET p == engine[i].prev[1][n]
              IN /\ Nearest(r, 6 * p * c[2] + 400 * c[1], 10 * c[2])
                 /\ (p = 80 /\ 5 * c[1] = c[2]) => r = 56

C2_Witness ==
  \E i \in 1..Len(engine) :
    /\ engine[i].prev # <<>>
    /\ engine[i].prev[1].stealth = 80
    /\ engine[i].stats.combats_initiated > 0
    /\ engine[i].stats.deaths > 0
    /\ engine[i].out.stealth = 56

\* the value of a trait before rounding, as <<num, den>> hundredths:
\* the clamped normalized value, blended with the previous one if there is one
Unrounded(i, n) ==
  LET c == normalized(engine[i].stats)[n]
  IN IF engine[i].prev = <<>>
       THEN <<100 * c[1], c[2]>>
       ELSE <<6 * engine[i].prev[1][n] * c[2] + 400 * c[1], 10 * c[2]>>

\* C11: with or without a previous vector every returned trait is a whole
\* number of hundredths, and rounding is the last step: the value lies within
\* half a hundredth of the clamped, blended value.
C11_RoundedToHundredths ==
  \A i \in 1..Len(engine) : \A n \in TraitSet :
    LET t == Unrounded(i, n)
        r == engine[i].out[n]
    IN /\ r \in 0..100
       /\ 2 * r * t[2] - t[2] <= 2 * t[1]
       /\ 2 * t[1] <= 2 * r * t[2] + t[2]

\* 2.6/3 = 0.8667 blended with 0.5 is 0.64667, returned as 0.65
C11_Witness ==
  \E i \in 1..Len(engine) :
    /\ engine[i].prev = <<defaultTraits>>
    /\ engine[i].stats.riddles_attempted = 5
    /\ engine[i].stats.riddles_correct = 2
    /\ engine[i].out.puzzle_affinity = 65

\* the results of the raw path and of the default-0.5 path for the stats of
\* call i: the call made one of them
RawPathOf(i) ==
  IF engine[i].prev = <<>> THEN engine[i].out
  ELSE computeTraits(engine[i].stats, <<>>)

DefaultPathOf(i) ==
  IF engine[i].prev = <<defaultTraits>> THEN engine[i].out
  ELSE computeTraits(engine[i].stats, <<defaultTraits>>)

OnEitherPath(i) == engine[i].prev \in {<<>>, <<defaultTraits>>}

Abs(x) == IF x < 0 THEN 0 - x ELSE x

\* C12 as stated: computeTraits(stats) and computeTraits(stats, all 0.5)
\* differ on every trait whose clamped normalized value is not 0.5.
C12_DifferWheneverNotHalf ==
  \A i \in 1..Len(engine) : OnEitherPath(i) =>
    \A n \in TraitSet :
      LET c == normalized(engine[i].stats)[n]
      IN 2 * c[1] # c[2] => RawPathOf(i)[n] # DefaultPathOf(i)[n]

\* C12 amended: the two results differ on every trait whose clamped normalized
\* value n is at least 1/60 away from 0.5 (the unrounded values n and
\* 0.3 + 0.4*n are then at least 0.01 apart); they are both 0.50 when n is
\* 0.5, and the raw result is never the one closer to 0.5.
C12_DifferBeyondRounding ==
  \A i \in 1..Len(engine) : OnEitherPath(i) =>
    \A n \in TraitSet :
      LET c == normalized(engine[i].stats)[n]
          a == RawPathOf(i)[n]
          b == DefaultPathOf(i)[n]
      IN /\ 30 * Abs(2 * c[1] - c[2]) >= c[2] => a # b
         /\ 2 * c[1] = c[2] => (a = 50 /\ b = 50)
         /\ Abs(a - 50) >= Abs(b - 50)

\* time_s = 271 with a retry: goal focus is 209/420 = 0.4976 normalized and
\* 0.50 on both paths, while stealth (normalized 1) is 1.00 against 0.70
C12_Witness ==
  \E i \in 1..Len(engine) :
    /\ engine[i].prev = <<>>
    /\ engine[i].stats.time_s = 271
    /\ engine[i].stats.retries = 1
    /\ ~engine[i].stats.has_mashing
    /\ engine[i].out.goal_focus = 50
    /\ DefaultPathOf(i).goal_focus = 50
    /\ engine[i].out.stealth = 100
    /\ DefaultPathOf(i).stealth = 70

\* round(clamp(num/den), 2) in hundredths
RefClampRound(num, den) ==
  IF num <= 0 THEN 0
  ELSE IF num >= den THEN 100
  ELSE (200 * num + den) \div (2 * den)

\* 0.3 * min(mashing_intensity, 1) in thousandths, 0 when absent
RefMashing(st) == IF st.has_mashing THEN 3 * Min(st.mashing_pct, 100) ELSE 0

\* the reference formula table, each value in hundredths
RefTable(st) ==
  [aggression |->
     RefClampRound(1000 * st.combats_initiated + 500 * st.combats_won
                     + RefMashing(st), 5000),
   stealth |->
     RefClampRound(10 - (IF st.combats_initiated > 0 THEN 6 ELSE 0)
                      - (IF st.deaths > 0 THEN 2 ELSE 0), 10),
   curiosity |->
     RefClampRound(3500 * st.collectibles_found
                     + 3 * Min(st.distance_traveled, 500), 25000),
   puzzle_affinity |->
     RefClampRound(10 * st.riddles_correct
                     + 2 * (st.riddles_attempted - st.riddles_correct), 30),
   independence |->
     IF st.hint_offers > 0 /\ st.hints_used = 0 THEN 100
     ELSE RefClampRound(2 - st.hints_used, 2),
   resilience |->
     RefClampRound(2400 * st.retries + 1200 * st.deaths
                     - Min(st.time_s, 600), 9000),
   goal_focus |->
     RefClampRound((IF st.time_s < 180 THEN 3000
                    ELSE Max(0, 3000 - 10 * (st.time_s - 180)))
                     + (IF st.retries = 0 THEN 600 ELSE 0)
                     + 3 * RefMashing(st), 4200)]

\* C16: with no previous vector computeTraits returns the reference table's
\* value for each of the seven traits; 3 combats with 2 wins give aggression
\* 0.80, time_s = 75 without retries gives goal focus 0.86.
C16_MatchesFormulaTable ==
  \A i \in 1..Len(engine) : engine[i].prev = <<>> =>
    LET st == engine[i].stats
    IN /\ \A n \in TraitSet : engine[i].out[n] = RefTable(st)[n]
       /\ (st.combats_initiated = 3 /\ st.combats_won = 2 /\ ~st.has_mashing)
            => engine[i].out.aggression = 80
       /\ (st.time_s = 75 /\ st.retries = 0 /\ ~st.has_mashing)
            => engine[i].out.goal_focus = 86

C16_Witness ==
  \E i \in 1..Len(engine) :
    /\ engine[i].prev = <<>>
    /\ engine[i].stats.combats_initiated = 3
    /\ engine[i].stats.combats_won = 2
    /\ engine[i].stats.time_s = 75
    /\ engine[i].stats.retries = 0
    /\ ~engine[i].stats.has_mashing
    /\ engine[i].stats.riddles_attempted = 5
    /\ engine[i].stats.riddles_correct = 2
    /\ engine[i].out.aggression = 80
    /\ engine[i].out.goal_focus = 86
    /\ engine[i].out.puzzle_affinity = 87

\* C17: when hints were offered and none used the normalized independence is
\* exactly 1, whatever the other fields; otherwise it is 1 - 0.5*hints_used
\* clamped into [0,1].  Without a previous vector it is returned as it is.
C17_IndependenceSpecialCase ==
  \A i \in 1..Len(engine) :
    LET st == engine[i].stats
        c == normalized(st).independence
    IN /\ c[2] > 0
       /\ IF st.hint_offers > 0 /\ st.hints_used = 0
            THEN c[1] = c[2]
            ELSE 2 * c[1] = c[2] * Max(0, Min(2, 2 - st.hints_used))
       /\ engine[i].prev = <<>> =>
            engine[i].out.independence =
              (IF st.hint_offers > 0 /\ st.hints_used = 0 THEN 100
               ELSE 50 * Max(0, Min(2, 2 - st.hints_used)))

C17_Witness ==
  \E i \in 1..Len(engine) :
    /\ engine[i].prev = <<>>
    /\ engine[i].stats.hint_offers = 3
    /\ engine[i].stats.hints_used = 0
    /\ engine[i].stats.retries = 800
    /\ engine[i].stats.combats_initiated < 0
    /\ engine[i].stats.time_s = 900
    /\ engine[i].out.independence = 100

\* C18: for fixed retries and deaths a faster run never gets a higher
\* resilience than a slower one.
C18_FasterNeverMoreResilient ==
  \A i \in 1..Len(engine) : engine[i].prev = <<>> =>
    \A slower \in EngineTimes :
      slower > engine[i].stats.time_s =>
        engine[i].out.resilience <=
          computeTraits([engine[i].stats EXCEPT !.time_s = slower],
                        <<>>).resilience

\* the five signals in evaluation order, each with its condition
SignalTable(st) ==
  <<[on |-> st.riddles_correct > 0,
     text |-> "Solved " \o ToString(st.riddles_correct) \o " riddle(s)"],
    [on |-> st.combats_initiated > 0,
     text |-> "Started " \o ToString(st.combats_initiated)
                \o " combat(s), won " \o ToString(st.combats_won)],
    [on |-> st.collectibles_found > 0,
     text |-> "Found " \o ToString(st.collectibles_found) \o " collectible(s)"],
    [on |-> st.hints_used > 0,
     text |-> "Used " \o ToString(st.hints_used) \o " hint(s)"],
    [on |-> st.retries > 0,
     text |-> "Retried " \o ToString(st.retries) \o " time(s)"]>>

SignalCalls == {i \in 1..Len(engine) : engine[i].call = "topSignals"}

\* C19: topSignals returns the first min(3, k) of the k applicable signals in
\* evaluation order: at most three, order kept, a signal dropped only when
\* three earlier ones apply.
C19_FirstThreeInEvaluationOrder ==
  \A i \in SignalCalls :
    LET table == SignalTable(engine[i].stats)
        on == {k \in 1..5 : table[k].on}
        got == engine[i].signals
        \* the position in the table of the j-th returned signal
        at(j) == CHOOSE k \in on : Cardinality({h \in on : h < k}) = j - 1
    IN /\ Len(got) <= 3
       /\ Len(got) = Min(3, Cardinality(on))
       /\ \A j \in 1..Len(got) : got[j] = table[at(j)].text
       /\ on = 1..5 =>
            \A j \in 1..Len(got) :
              got[j] # table[4].text /\ got[j] # table[5].text

C19_Witness ==
  \E i \in SignalCalls :
    /\ engine[i].stats.hints_used = 2
    /\ engine[i].stats.retries = 3
    /\ engine[i].signals =
         <<"Solved 5 riddle(s)", "Started 10 combat(s), won 10",
           "Found 12 collectible(s)">>

\* the descriptors in their fixed order, each with its threshold rule
DescriptorTable(t) ==
  <<[on |-> t.puzzle_affinity > 60, text |-> "puzzle-leaning"],
    [on |-> t.curiosity > 60, text |-> "exploration-oriented"],
    [on |-> t.aggression > 50, text |-> "combat-inclined"],
    [on |-> t.independence > 60, text |-> "rarely uses hints"],
    [on |-> t.resilience > 60, text |-> "bounces back after failures"]>>

\* the descriptors of table[k..] that hold, each preceded by ", "
RECURSIVE ListFrom(_, _)
ListFrom(table, k) ==
  IF k > Len(table) THEN ""
  ELSE (IF table[k].on THEN ", " \o table[k].text ELSE "")
         \o ListFrom(table, k + 1)

TextCalls == {i \in 1..Len(engine) : engine[i].call = "personaText"}

ExplainCalls ==
  {i \in 1..Len(engine) : engine[i].call = "generateTraitExplanations"}

\* the direction word the comparison of new and effective previous demands
Direction(old, new) ==
  CHOOSE w \in {"increased", "decreased", "unchanged"} :
    /\ w = "increased" <=> new > old
    /\ w = "decreased" <=> new < old
    /\ w = "unchanged" <=> new = old

PresentedKey(req) ==
  IF req.xApiKey \notin {<<>>, <<"">>} THEN req.xApiKey
  ELSE IF \E r \in {"k2", "k9"} :
            req.authorization = <<[prefix |-> "Bearer ", rest |-> r]>>
         THEN <<req.authorization[1].rest>>
         ELSE <<>>

LatestCalls ==
  {i \in 1..Len(engine) : engine[i].call = "fetchLatestPersona"}

FilterCalls == {i \in 1..Len(engine) : engine[i].call = "fetchByFilters"}

\* the positions of the memories of a trait in a list
Of(memories, n) == {k \in 1..Len(memories) : memories[k].trait_name = n}

\* C23: for any list the store returns, the value fetchLatestPersona reports
\* for a trait is the value of a memory of that trait whose updated_at is the
\* greatest among the memories of that trait.
C23_LatestStampWinsPerTrait ==
  \A i \in LatestCalls : engine[i].persona # <<>> =>
    \A n \in TraitSet :
      \E k \in Of(engine[i].memories, n) :
        /\ engine[i].memories[k].trait_value = engine[i].persona[1][n]
        /\ \A h \in Of(engine[i].memories, n) :
             engine[i].memories[h].updated_at
               <= engine[i].memories[k].updated_at

\* C25: fetchLatestPersona returns a persona exactly when the memories cover
\* all seven trait names; otherwise it returns absent and the coordinator
\* takes the all-0.5 vector, never a partial one.
C25_PersonaNeedsAllSevenTraits ==
  \A i \in LatestCalls :
    LET covered == {n \in TraitSet : Of(engine[i].memories, n) # {}}
    IN /\ engine[i].persona # <<>> <=> covered = TraitSet
       /\ engine[i].persona # <<>> =>
            /\ DOMAIN engine[i].persona[1] = TraitSet
            /\ engine[i].prev = engine[i].persona
       /\ engine[i].persona = <<>> => engine[i].prev = <<defaultTraits>>

\* six of the seven traits are stored: no persona, the default is taken
C25_Witness ==
  \E i \in LatestCalls :
    /\ Of(engine[i].memories, "goal_focus") = {}
    /\ \A n \in TraitSet \ {"goal_focus"} : Of(engine[i].memories, n) # {}
    /\ engine[i].persona = <<>>
    /\ engine[i].prev = <<defaultTraits>>

\* C28: on the same memories fetchByFilters and fetchLatestPersona report a
\* persona in the same cases, and the same traits.
C28_ReadPathsAgree ==
  /\ \A i \in LatestCalls :
       engine[i].persona = personaByFilters(engine[i].memories)
  /\ \A i \in FilterCalls :
       engine[i].persona = personaFromMemories(engine[i].memories)

-----------------------------------------------------------------------------
(* Claims about saveFromServerInput                                        *)

Started(i) == saves[i].pc # "new" /\ saves[i].body.has_input
CtxOf(i) == ContextList[saves[i].body.ctx]
StatsOf(i) == StatsList[saves[i].body.stats]

\* every scope block of the save has run (the batch is next, or was sent)
AllBlocksRun(i) ==
  \/ saves[i].pc = "batch"
  \/ saves[i].status = 200
  \/ saves[i].cause = "write"

HasBlock(i, scope) ==
  \E k \in 1..Len(saves[i].lookups) : saves[i].lookups[k].key.scope = scope

\* C3: in every scope block computeTraits gets a defined previous vector,
\* the stored traits when the lookup found a persona and the all-0.5 vector
\* otherwise; the first value ever stored for a key is the hundredth nearest
\* to 0.3 + 0.4*n.
C3_DefaultBlendOnFirstSave ==
  \A i \in Saves : \A k \in 1..Len(saves[i].lookups) :
    LET l == saves[i].lookups[k]
        c == normalized(StatsOf(i))
    IN /\ l.prev # <<>>
       /\ \A n \in TraitSet : l.prev[1][n] # Null
       /\ l.found # <<>> => l.prev = l.found
       /\ l.found = <<>> => l.prev = <<defaultTraits>>
       /\ k \in saves[i].first =>
            \A m \in 1..Len(TraitNames) :
              Nearest(MemoriesOf(saves[i], k)[m].trait_value,
                      300 * c[TraitNames[m]][2] + 400 * c[TraitNames[m]][1],
                      10 * c[TraitNames[m]][2])

C3_Witness ==
  \E i, j \in Saves :
    /\ saves[i].status = 200
    /\ 1 \in saves[i].first
    /\ saves[i].lookups[1].found = <<>>
    /\ Len(saves[j].lookups) > 0
    /\ saves[j].lookups[1].found # <<>>

\* C4: a save whose lookup of previous traits failed still writes its
\* snapshots and ends without an error.
C4_ReadFailureNeverBlocksWrite ==
  \A i \in Saves :
    (saves[i].cause = "read" /\ saves[i].pc = "done")
      => (saves[i].status = 200 /\ saves[i].wrote > 0)

\* C5: when persisting fails, it fails for one scope only: the snapshots of
\* the other scopes of the record are in the store.
C5_WriteFailureIsolatedPerScope ==
  \A i \in Saves :
    saves[i].cause = "write" =>
      Cardinality((1..Len(saves[i].lookups)) \ saves[i].persisted) <= 1

SameOwner(d, e) ==
  /\ d.player_id = e.player_id
  /\ d.persona_scope = e.persona_scope
  /\ d.genre_id = e.genre_id
  /\ d.platform_id = e.platform_id
  /\ d.persona_scope = "game" => d.game_id = e.game_id
  /\ d.trait_name = e.trait_name

WrittenIds(i) ==
  IF saves[i].wrote > 0
    THEN {saves[i].allMemories[k].customId :
            k \in 1..Len(saves[i].allMemories)}
    ELSE {}

LastWriter(d) ==
  LET writers == {i \in Saves : d.customId \in WrittenIds(i)}
  IN CHOOSE i \in writers : \A j \in writers : saves[j].wrote <= saves[i].wrote

IsLastWritten(d) ==
  LET w == saves[LastWriter(d)].allMemories
  IN \E k \in 1..Len(w) : d = [w[k] EXCEPT !.trait_value = toJSON(@)]

C7_BlendsAgainstOwnRead ==
  /\ \A i \in Saves : \A k \in 1..Len(saves[i].lookups) :
       LET l == saves[i].lookups[k]
           c == normalized(StatsOf(i))
       IN \A m \in 1..Len(TraitNames) :
            LET n == TraitNames[m]
                v == IF l.found = <<>> THEN 50 ELSE l.found[1][n]
            IN /\ MemoriesOf(saves[i], k)[m].trait_name = n
               /\ Nearest(MemoriesOf(saves[i], k)[m].trait_value,
                          6 * v * c[n][2] + 400 * c[n][1], 10 * c[n][2])
  /\ \A a \in 1..Len(docs) :
       LET w == saves[LastWriter(docs[a])].allMemories
       IN \E k \in 1..Len(w) :
            /\ w[k].customId = docs[a].customId
            /\ w[k].trait_value = docs[a].trait_value
            /\ w[k].updated_at = docs[a].updated_at

\* two overlapping saves of one player and game read nothing and both write:
\* the store keeps the later writer's value, the other contribution is lost
C7_Witness ==
  \E i, j \in Saves :
    /\ saves[i].wrote = 1 /\ saves[j].wrote = 2
    /\ saves[i].body.player_id = saves[j].body.player_id
    /\ saves[i].gameId = saves[j].gameId
    /\ saves[i].body.stats # saves[j].body.stats
    /\ saves[i].lookups[1].found = <<>>
    /\ saves[j].lookups[1].found = <<>>
    /\ \E a \in 1..Len(docs) :
         /\ docs[a].persona_scope = "global"
         /\ docs[a].trait_name = "stealth"
         /\ docs[a].trait_value = saves[j].lookups[1].traits.stealth
         /\ docs[a].trait_value # saves[i].lookups[1].traits.stealth

\* ids that stand at index 0 of some client's list
FirstOf(list) == IF Len(list) > 0 THEN {list[1]} ELSE {}

\* C8: a save looks up and writes the genre snapshot of genre_ids[0] and the
\* platform snapshot of platform_ids[0] only, and none for an empty or
\* missing list.
C8_OnlyFirstGenreAndPlatform ==
  /\ \A i \in Saves : Started(i) =>
       /\ \A k \in 1..Len(saves[i].lookups) :
            LET key == saves[i].lookups[k].key
            IN /\ key.scope = "genre" => key.id \in FirstOf(CtxOf(i).genre_ids)
               /\ key.scope = "platform" =>
                    key.id \in FirstOf(CtxOf(i).platform_ids)
       /\ \A k \in 1..Len(saves[i].allMemories) :
            LET m == saves[i].allMemories[k]
            IN /\ m.persona_scope = "genre" =>
                    m.genre_id \in FirstOf(CtxOf(i).genre_ids)
               /\ m.persona_scope # "genre" => m.genre_id = ""
               /\ m.persona_scope = "platform" =>
                    m.platform_id \in FirstOf(CtxOf(i).platform_ids)
               /\ m.persona_scope # "platform" => m.platform_id = ""
       /\ AllBlocksRun(i) =>
            /\ HasBlock(i, "genre") <=> Len(CtxOf(i).genre_ids) > 0
            /\ HasBlock(i, "platform") <=> Len(CtxOf(i).platform_ids) > 0
  /\ \A a \in 1..Len(docs) :
       /\ docs[a].persona_scope = "genre" =>
            \E c \in Contexts : docs[a].genre_id \in FirstOf(ContextList[c].genre_ids)
       /\ docs[a].persona_scope = "platform" =>
            \E c \in Contexts :
              docs[a].platform_id \in FirstOf(ContextList[c].platform_ids)

C8_Witness ==
  \E i, j \in Saves :
    /\ saves[i].status = 200
    /\ CtxOf(i).genre_ids = <<"rpg", "action">>
    /\ CtxOf(i).platform_ids = <<"pc", "console">>
    /\ \E a \in 1..Len(docs) : docs[a].genre_id = "rpg"
    /\ \E a \in 1..Len(docs) : docs[a].platform_id = "pc"
    /\ saves[j].status = 200
    /\ CtxOf(j).genre_ids = <<>>
    /\ ~HasBlock(j, "genre")
    /\ ~HasBlock(j, "platform")

\* C9 as stated: a save whose record carries no game id looks up and writes
\* no game-scope snapshot; the global scope is processed for every record.
C9_NoGameIdNoGameScope ==
  \A i \in Saves : Started(i) =>
    /\ ~CtxOf(i).has_game_id => ~HasBlock(i, "game")
    /\ Len(saves[i].lookups) > 0 => saves[i].lookups[1].key = GlobalKey

\* C9 amended: the game scope is processed exactly when the effective game
\* id is not empty, the effective game id being the record's game id or,
\* when it carries none, the configured default ENV.GAME_ID; the global
\* scope is processed for every record.
EffectiveGameId(i) ==
  IF CtxOf(i).has_game_id THEN CtxOf(i).game_id ELSE ENV_GAME_ID

C9_GameScopeOfEffectiveGameId ==
  \A i \in Saves : Started(i) =>
    /\ \A k \in 1..Len(saves[i].lookups) :
         saves[i].lookups[k].key.scope = "game" =>
           /\ EffectiveGameId(i) # ""
           /\ saves[i].lookups[k].key.id = EffectiveGameId(i)
    /\ Len(saves[i].lookups) > 0 => saves[i].lookups[1].key = GlobalKey
    /\ AllBlocksRun(i) =>
         /\ Len(saves[i].lookups) > 0
         /\ HasBlock(i, "game") <=> EffectiveGameId(i) # ""

C9_Witness ==
  \E i, j \in Saves :
    /\ saves[i].status = 200
    /\ ~CtxOf(i).has_game_id
    /\ saves[i].lookups[2].key = ScopeKeyOf("game", ENV_GAME_ID)
    /\ \E a \in 1..Len(docs) :
         docs[a].persona_scope = "game" /\ docs[a].game_id = ENV_GAME_ID
    /\ saves[j].status = 200
    /\ CtxOf(j).has_game_id /\ CtxOf(j).game_id = ""
    /\ ~HasBlock(j, "game")

\* C10: a save request whose stats record lacks a required field is
\* rejected: it reaches no computeTraits call and writes nothing.
C10_MalformedStatsRejected ==
  \A i \in Saves :
    (Started(i) /\ StatsOf(i).missing # {}) =>
      /\ Len(saves[i].lookups) = 0
      /\ saves[i].wrote = 0
      /\ saves[i].pc = "done" => saves[i].status = 400

\* every (player, scope-key) pair the clients' records can name
AllKeys ==
  {GlobalKey}
    \cup {ScopeKeyOf("game", g) :
            g \in {ENV_GAME_ID} \cup {ContextList[c].game_id : c \in Contexts}}
    \cup UNION {{ScopeKeyOf("genre", ContextList[c].genre_ids[k]) :
                   k \in 1..Len(ContextList[c].genre_ids)} : c \in Contexts}
    \cup UNION {{ScopeKeyOf("platform", ContextList[c].platform_ids[k]) :
                   k \in 1..Len(ContextList[c].platform_ids)} : c \in Contexts}

KeysOf(s) == {s.lookups[k].key : k \in 1..Len(s.lookups)}

C14_ReadBackReturnsSnapshot ==
  \A i \in Saves :
    (saves[i].status = 200 /\ saves[i].wrote = WriteCount) =>
      \A k \in 1..Len(saves[i].lookups) :
        personaOf(fetchLatestPersona(docs, saves[i].body.player_id,
                                     saves[i].lookups[k].key))
          = <<saves[i].lookups[k].snapshot>>

\* the field of the save response that reports a scope
ReportField(scope) ==
  CASE scope = "global"   -> "global"
    [] scope = "game"     -> "game"
    [] scope = "genre"    -> "genres"
    [] scope = "platform" -> "platforms"

\* C15: the response of a save that processed scopes carries, for each of
\* them, that scope's outcome.
C15_PerScopeOutcomeReported ==
  \A i \in Saves :
    (saves[i].pc = "done" /\ Len(saves[i].lookups) > 0) =>
      \A k \in 1..Len(saves[i].lookups) :
        ReportField(saves[i].lookups[k].key.scope) \in DOMAIN saves[i].response

\* Save b ran after save a of the same player: a wrote first, b second, and
\* b's global lookup already saw what a wrote.  Receive only records the
\* request, so every such state is also reached by a run in which b is
\* received after a has answered.
Sequential(a, b) ==
  /\ saves[a].wrote = 1
  /\ saves[b].wrote = 2
  /\ saves[a].body.player_id = saves[b].body.player_id
  /\ saves[b].lookups[1].found # <<>>

\* C24: after sequential saves of one player, possibly from different games,
\* the vector the next save would read for the global scope is the global
\* vector the most recent save wrote.
C24_GlobalChainUnbroken ==
  \A a, b \in Saves :
    Sequential(a, b) =>
      fetchLatestPersona(docs, saves[b].body.player_id, GlobalKey)
        = <<saves[b].lookups[1].traits>>

\* the stored trait values, in hundredths
StoredValues == {docs[j].trait_value : j \in 1..Len(docs)}

\* C26: starting from an empty store, every stored trait value of every scope
\* lies in [0.01, 0.99], whatever the stats saved.
C26_StoredValuesInsideUnitInterval ==
  \A j \in 1..Len(docs) :
    /\ docs[j].trait_value \notin {NaN, Null}
    /\ docs[j].trait_value >= 1
    /\ docs[j].trait_value <= 99

\* a save whose record pushes a trait to 0 and another to 1 found them at 0.01
\* and 0.99 and left them there, in all four scopes
C26_Witness ==
  /\ saves[1].pc = "done" /\ saves[1].wrote > 0
  /\ Len(saves[1].lookups) = 4
  /\ LET n == normalized(StatsList[saves[1].body.stats])
     IN \A k \in 1..4 :
          /\ saves[1].lookups[k].found # <<>>
          /\ \E t \in TraitSet :
               /\ n[t][1] = 0
               /\ saves[1].lookups[k].found[1][t] = 1
               /\ saves[1].lookups[k].traits[t] = 1
          /\ \E t \in TraitSet :
               /\ n[t][1] = n[t][2]
               /\ saves[1].lookups[k].found[1][t] = 99
               /\ saves[1].lookups[k].traits[t] = 99
  /\ {1, 99} \subseteq StoredValues

\* the record the client has settled on
Settled == Cardinality(requests) = 1
SettledStats == StatsList[(CHOOSE body \in requests : TRUE).stats]

\* round(n, 2) of a fraction n, in hundredths
Hundredth(n) == (200 * n[1] + n[2]) \div (2 * n[2])

\* value v (hundredths) lies at or below the normalized value n (a fraction)
AtOrBelow(v, n) == v * n[2] <= 100 * n[1]
AtOrAbove(v, n) == v * n[2] >= 100 * n[1]

\* every scope block that found a stored vector moved each trait toward the
\* normalized value of its record, and not beyond round(n, 2)
StepToward ==
  \A k \in 1..Len(saves[1].lookups) :
    LET l == saves[1].lookups[k]
        n == normalized(StatsList[saves[1].body.stats])
    IN l.found # <<>> =>
         \A t \in TraitSet :
           LET v == l.found[1][t]
               w == l.traits[t]
               target == Hundredth(n[t])
           IN /\ AtOrBelow(v, n[t]) => (v <= w /\ w <= target)
              /\ AtOrAbove(v, n[t]) => (target <= w /\ w <= v)

\* every stored value is within 0.0125 of the normalized value of the settled
\* record, and saving that record again stores the same value
AtRest ==
  /\ docs # <<>>
  /\ \A j \in 1..Len(docs) :
       LET n == normalized(SettledStats)[docs[j].trait_name]
           v == docs[j].trait_value
       IN /\ 4 * Abs(100 * n[1] - v * n[2]) <= 5 * n[2]
          /\ round(blend(n, v)) = v

\* C27: when the same stats are saved again and again, each stored trait
\* moves monotonically toward its normalized value n without overshooting
\* round(n, 2), and after finitely many saves it stays at a value within
\* 0.0125 of n.
C27_BlendingChainConverges ==
  /\ []StepToward
  /\ Settled ~> []AtRest

\* the settled record was saved once more and changed nothing, with a trait
\* resting at 0.01 although its normalized value is 0
C27_Witness ==
  /\ Settled
  /\ saves[1].pc = "done" /\ saves[1].wrote > 0
  /\ StatsList[saves[1].body.stats] = SettledStats
  /\ \A k \in 1..Len(saves[1].lookups) :
       saves[1].lookups[k].found = <<saves[1].lookups[k].traits>>
  /\ \E t \in TraitSet :
       /\ normalized(SettledStats)[t][1] = 0
       /\ saves[1].lookups[1].traits[t] = 1
  /\ AtRest

\* C29: two trait memories get the same customId only if they belong to the
\* same player, the same scope key and the same trait, whatever characters
\* the ids contain.
C29_StorageKeysInjective ==
  \A i \in 1..Len(engine) :
    engine[i].first.id = engine[i].second.id =>
      /\ engine[i].first.owner.playerId = engine[i].second.owner.playerId
      /\ engine[i].first.owner.key = engine[i].second.owner.key
      /\ engine[i].first.trait = engine[i].second.trait

ListCalls == {i \in 1..Len(engine) : engine[i].call = "list"}

Retryable(status) == status = 404 \/ status >= 500

\* what a call of list has done so far: every answer but the last was a 404
\* or a 5xx, each was followed by the next of the waits 2 s, 4 s, 6 s, no more
\* than four requests were sent; it returned on an OK answer, with the body
\* even if empty, and threw on any other answer that is not retryable, or on
\* the fourth that is
ListSoFar ==
  \A i \in ListCalls :
    LET c == engine[i]
        n == Len(c.answers)
    IN /\ c.sent <= 4
       /\ c.sent = c.retries + 1
       /\ n = IF c.pc = "fetch" THEN c.sent - 1 ELSE c.sent
       /\ \A k \in 1..(n - 1) : Retryable(c.answers[k])
       /\ c.waited = SubSeq(<<2000, 4000, 6000>>, 1, Len(c.waited))
       /\ Len(c.waited) = IF c.pc = "wait" THEN c.sent ELSE c.sent - 1
       /\ c.pc = "wait" => Retryable(c.answers[n]) /\ n <= 3
       /\ c.pc = "returned" =>
            Ok(c.answers[n]) /\ Len(c.result) = 1
       /\ c.pc = "thrown" =>
            /\ ~Ok(c.answers[n])
            /\ Retryable(c.answers[n]) => n = 4
       /\ c.pc # "returned" => c.result = <<>>

ListEnded ==
  \E i \in ListCalls : engine[i].pc \in {"returned", "thrown"}

====
